---- MODULE Spec2Model ----
(***************************************************************************)
(* A model of virtbuilder.py: the provisioning pipeline of main() and the  *)
(* functions it calls, with the filesystem, the mount table, the libvirt   *)
(* domain and the ipvtap link as the environment its commands act on.      *)
(*                                                                         *)
(* Every command goes through subprocess_run_wrapper; the line it prints   *)
(* is kept in log, with the tag ([DRY-RUN] / [EXECUTING]) and the token    *)
(* list of the command.  A Python dict is a record with a field keys, the  *)
(* set of keys the dict holds; reading a key that is not there raises      *)
(* KeyError, which ends the process with a traceback (status 1).           *)
(***************************************************************************)
EXTENDS Integers, Sequences, FiniteSets, TLC

VARIABLES
    pc,              \* position in main()
    cfg,             \* argv, virtbuilder.conf and the VM configuration document
    status,          \* exit status of the process, "running" until it ends
    err,             \* what ended the process
    log,             \* the command lines printed by subprocess_run_wrapper
    fs,              \* filesystem: path -> "none" | "file" | "dir"
    mounts,          \* /proc/mounts, one record per line
    domain,          \* libvirt domain of the VM name
    link,            \* the ipvtap0 link
    xmlfile,         \* contents of vmvirtfile
    virtinstall_cmd, \* main(): virtinstall_cmd
    vm_xml,          \* main(): vm_xml
    i,               \* index of the disk the current loop is at
    reported,        \* the [ERROR] lines printed for the failures the code catches
    env0,            \* the environment at process start
    run,             \* number of the run of the program, from 1
    prev,            \* the run before this one: how it started and ended
    writes,          \* number of times this run wrote vmvirtfile
    vm_ret           \* main(): vm_ret, what virt-install returned

vars == <<pc, cfg, status, err, log, fs, mounts, domain, link, xmlfile,
          virtinstall_cmd, vm_xml, i, reported, env0, run, prev, writes, vm_ret>>

----------------------------------------------------------------------------
(* Bounds of the model *)

MaxDisks == 2

MaxSize == 2

MaxRuns == 2

----------------------------------------------------------------------------
(* Program constants *)

KiBPerGiB == 1024 * 1024

None == "None"

NoFile == <<"no such file">>

VmName == "vm1"

RamdiskPath == "/mnt/ramdisk"

OtherMount == "/boot"

ImgFile == "/img/base.img"

Uri(k) == "/vm/d" \o ToString(k) \o ".qcow2"

\* the cases of the match of lines 455-505
NetworkTypes == {"nat", "isolated", "bridge", "macvtap", "ipvtap"}

Paths == {RamdiskPath, ImgFile} \cup {Uri(k) : k \in 1..MaxDisks}

----------------------------------------------------------------------------
(* Python helpers *)

Has(d, k) == k \in d.keys

\* dict.get(key, default)
Get(d, k, default) == IF Has(d, k) THEN d[k] ELSE default

\* os.path.normpath on the paths of the model: a trailing slash is dropped
normpath(p) == IF p = RamdiskPath \o "/" THEN RamdiskPath ELSE p

\* os.path.exists / os.path.isfile
exists(p) == fs[normpath(p)] # "none"

isfile(p) == fs[normpath(p)] = "file"

\* " ".join(command)
RECURSIVE join(_)
join(command) ==
    IF Len(command) = 0 THEN ""
    ELSE IF Len(command) = 1 THEN command[1]
    ELSE command[1] \o " " \o join(Tail(command))

----------------------------------------------------------------------------
(* The configuration documents the runs are checked over.  BaseConfig is a  *)
(* valid document; each family below varies one part of it (and of the      *)
(* environment that part acts on), so the pipeline is explored over the     *)
(* union of the families rather than over their product.                    *)

\* a disk entry of the document; keys says which of the fields the entry holds
Disk(keys, k, bus, readonly, removable) ==
    [keys |-> keys, uri |-> Uri(k), format |-> "qcow2", size |-> 10 * k, bus |-> bus,
     imgfile |-> ImgFile, imgformat |-> "raw", readonly |-> readonly,
     removable |-> removable]

BlankDisk(k) == Disk({"uri", "format", "size"}, k, "scsi", FALSE, FALSE)

BaseVm ==
    [keys |-> {"name", "os_variant", "vcpus", "memory", "bios", "secureboot", "graphics"},
     name |-> VmName, os_variant |-> "linux2022", vcpus |-> 2, memory |-> 2048,
     usbver |-> "2", bios |-> "efi", secureboot |-> FALSE, graphics |-> "spice"]

BaseRamdisk == [keys |-> {"path", "size"}, path |-> RamdiskPath, size |-> 1]

BaseNetwork ==
    [keys |-> {"type", "mac", "parent_interface"}, type |-> "nat",
     mac |-> "52:54:00:00:00:01", parent_interface |-> "eth0", model |-> "e1000"]

BaseConfig ==
    [defaultconf |-> [exists |-> TRUE, keys |-> {"dry_run"}, dry_run |-> FALSE],
     vmconffile  |-> [base |-> "vm1", ext |-> ".yml", exists |-> TRUE],
     remove      |-> FALSE,
     keys        |-> {"vm", "disks", "ramdisk", "network"},
     vm          |-> BaseVm,
     disks       |-> <<BlankDisk(1)>>,
     ramdisk     |-> BaseRamdisk,
     network     |-> BaseNetwork]

\* /proc/mounts lines; size is the tmpfs size option in KiB, 0 for no size option
MountLine(mp, fstype, size) ==
    [mp |-> mp, fstype |-> fstype,
     opts |-> IF size = 0 THEN <<[name |-> "rw", value |-> 0]>>
              ELSE <<[name |-> "rw", value |-> 0], [name |-> "size", value |-> size]>>]

BaseEnv ==
    [fs      |-> [p \in Paths |-> IF p = ImgFile THEN "file" ELSE "none"],
     mounts  |-> <<MountLine(OtherMount, "ext4", 0)>>,
     domain  |-> "absent",
     link    |-> "absent",
     xmlfile |-> NoFile]

Scenario(c, e) == [cfg |-> c, env |-> e]

\* the process-wide flag and the remove flag
Modes(c) ==
    {[c EXCEPT !.defaultconf.dry_run = d, !.remove = r] : d \in BOOLEAN, r \in BOOLEAN}

RECURSIVE SeqsUpTo(_, _)
\* the sequences of at most n elements, the element at position k drawn from At[k]
SeqsUpTo(n, At) ==
    IF n = 0 THEN {<<>>}
    ELSE LET shorter == SeqsUpTo(n - 1, At)
         IN  shorter \cup {Append(q, d) : q \in {r \in shorter : Len(r) = n - 1}, d \in At[n]}

\* startup: virtbuilder.conf, the extension and the presence of the document
StartupFamily ==
    {Scenario([BaseConfig EXCEPT !.defaultconf = d, !.vmconffile = f, !.remove = r], BaseEnv) :
        d \in {[exists |-> TRUE, keys |-> {"dry_run"}, dry_run |-> TRUE],
               [exists |-> TRUE, keys |-> {}, dry_run |-> TRUE],
               [exists |-> FALSE, keys |-> {}, dry_run |-> FALSE]},
        f \in {[base |-> "vm1", ext |-> e, exists |-> x] :
                  e \in {".yml", ".yaml", ".txt"}, x \in BOOLEAN},
        r \in BOOLEAN}

\* the mount table: the ramdisk path not mounted, a tmpfs of each size in whole
\* and in half gibibytes, a tmpfs with no size option, another filesystem
MountTables ==
    {BaseEnv.mounts} \cup
    {Append(BaseEnv.mounts, MountLine(RamdiskPath, "tmpfs", kib)) :
        kib \in {g * KiBPerGiB : g \in 1..MaxSize}
                \cup {g * KiBPerGiB + KiBPerGiB \div 2 : g \in 1..MaxSize} \cup {0}} \cup
    {Append(BaseEnv.mounts, MountLine(RamdiskPath, "ext4", 0))}

RamdiskFamily ==
    {Scenario([c EXCEPT !.ramdisk.path = p, !.ramdisk.size = g],
              [BaseEnv EXCEPT !.mounts = m,
                              !.fs[RamdiskPath] = IF Len(m) > 1 THEN "dir" ELSE d]) :
        c \in Modes(BaseConfig), p \in {RamdiskPath, RamdiskPath \o "/"},
        g \in 1..MaxSize, m \in MountTables, d \in {"none", "dir"}}

TeardownFamily ==
    {Scenario(c, [BaseEnv EXCEPT !.domain = d, !.fs[Uri(1)] = f]) :
        c \in Modes(BaseConfig), d \in {"absent", "stopped", "running", "transient"},
        f \in {"none", "file", "dir"}}

\* disks in blank mode, in conversion mode with a size and without one; the
\* disk at position k has its own path or the path of the first disk
MaterializeDisks(k) ==
    {Disk(keys, u, "scsi", FALSE, FALSE) :
        keys \in {{"uri", "format", "size"},
                  {"uri", "format", "size", "imgfile", "imgformat"},
                  {"uri", "format", "imgfile", "imgformat"}},
        u \in {1, k}}

MaterializeFamily ==
    {Scenario([c EXCEPT !.disks = ds], [BaseEnv EXCEPT !.fs[ImgFile] = f, !.fs[Uri(1)] = t]) :
        c \in Modes(BaseConfig), ds \in SeqsUpTo(MaxDisks, [k \in 1..MaxDisks |-> MaterializeDisks(k)]),
        f \in {"none", "file", "dir"}, t \in {"none", "file"}}

\* disks with each bus, or none given, read-only or not
ArgumentDisks(k) ==
    {Disk({"uri", "format", "size"} \cup more, k, bus, TRUE, FALSE) :
        more \in SUBSET {"bus", "readonly"}, bus \in {"scsi", "virtio", "sata"}}

ArgumentFamily ==
    {Scenario([c EXCEPT !.disks = ds], BaseEnv) :
        c \in Modes(BaseConfig), ds \in SeqsUpTo(MaxDisks, [k \in 1..MaxDisks |-> ArgumentDisks(k)])}

\* disks flagged removable, flagged not removable, or not flagged
RemovableDisks(k) ==
    {Disk({"uri", "format", "size"} \cup more, k, "scsi", FALSE, r) :
        more \in SUBSET {"removable"}, r \in BOOLEAN}

RemovableFamily ==
    {Scenario([c EXCEPT !.disks = ds], BaseEnv) :
        c \in Modes(BaseConfig), ds \in SeqsUpTo(MaxDisks, [k \in 1..MaxDisks |-> RemovableDisks(k)])}

VmFamily ==
    {Scenario([c EXCEPT !.vm.bios = b, !.vm.secureboot = sb, !.vm.graphics = g,
                        !.vm.keys = (BaseVm.keys \ {"secureboot"}) \cup more], BaseEnv) :
        c \in Modes(BaseConfig), b \in {"efi", "legacy", "bogus"}, sb \in BOOLEAN,
        g \in {"3d", "spice", "vnc", "serial_console", "headless", "bogus"},
        more \in SUBSET {"secureboot", "usbver"}}

NetworkFamily ==
    {Scenario([c EXCEPT !.network.type = t, !.network.keys = {"type"} \cup more],
              [BaseEnv EXCEPT !.link = l]) :
        c \in Modes(BaseConfig), t \in NetworkTypes \cup {"bogus"},
        more \in {{"mac", "parent_interface"}, {"mac", "parent_interface", "model"},
                  {"mac"}, {"parent_interface"}},
        l \in {"absent", "down", "up"}}

\* one required key of the document left out
MissingKeyFamily ==
    {Scenario(c, BaseEnv) :
        c \in UNION {Modes(d) :
            d \in {[BaseConfig EXCEPT !.keys = @ \ {k}] : k \in BaseConfig.keys}
              \cup {[BaseConfig EXCEPT !.vm.keys = @ \ {k}] : k \in BaseVm.keys}
              \cup {[BaseConfig EXCEPT !.ramdisk.keys = @ \ {k}] : k \in BaseRamdisk.keys}
              \cup {[BaseConfig EXCEPT !.network.keys = @ \ {k}] : k \in BaseNetwork.keys}
              \cup {[BaseConfig EXCEPT !.disks[1].keys = @ \ {k}] :
                        k \in BaseConfig.disks[1].keys}}}

Scenarios ==
    StartupFamily \cup RamdiskFamily \cup TeardownFamily \cup MaterializeFamily
    \cup ArgumentFamily \cup RemovableFamily \cup VmFamily \cup NetworkFamily
    \cup MissingKeyFamily

----------------------------------------------------------------------------
(* Command Executor *)

\* the process-wide flag: defaultconfig.get('dry_run', False)
defaultconfig_dry_run == Get(cfg.defaultconf, "dry_run", FALSE)

\* a wrapper that does not consult the process-wide flag
Simulated_ignores_flag(dry_run) == dry_run = "True"

\* a wrapper that does not consult the override it is called with
Simulated_ignores_override(dry_run) == defaultconfig_dry_run

\* lines 20-21: the explicit override when one is given, else the global value
Simulated(dry_run) ==
    IF dry_run = None THEN defaultconfig_dry_run ELSE dry_run = "True"

\* lines 23-29: one call of the wrapper.  The line it prints for the command
\* (tag, printed), the argument dry_run it was called with, and what it
\* returns: None without spawning anything when simulated, else the result of
\* the one subprocess.run of the command
subprocess_run_wrapper(command, dry_run) ==
    [tag     |-> IF Simulated(dry_run) THEN "DRY-RUN" ELSE "EXECUTING",
     cmd     |-> command,
     printed |-> (IF Simulated(dry_run) THEN "[DRY-RUN] Command: "
                  ELSE "[EXECUTING] Command: ") \o join(command),
     dry_run |-> dry_run,
     returns |-> IF Simulated(dry_run) THEN None ELSE "CompletedProcess"]

\* the process ends: sys.exit(code), or an uncaught exception (status 1)
Exit(code, why) ==
    /\ pc' = "exit"
    /\ status' = code
    /\ err' = why

Goto(label) ==
    /\ pc' = label
    /\ UNCHANGED <<status, err>>

----------------------------------------------------------------------------
(* Ramdisk Reconciler *)

RECURSIVE FirstLine(_, _, _)
\* the first line of the mount table, from line k on, whose mount point is path
FirstLine(table, k, path) ==
    IF k > Len(table) THEN 0
    ELSE IF normpath(table[k].mp) = normpath(path) THEN k
    ELSE FirstLine(table, k + 1, path)

RECURSIVE FirstOpt(_, _)
\* next((opt for opt in options if opt.startswith("size=")), None)
FirstOpt(opts, k) ==
    IF k > Len(opts) THEN 0
    ELSE IF opts[k].name = "size" THEN k
    ELSE FirstOpt(opts, k + 1)

\* os.path.ismount(path)
is_mountpoint(path) == FirstLine(mounts, 1, path) # 0

is_ramdisk(path) ==
    LET k == FirstLine(mounts, 1, path)
    IN  IF k = 0 THEN FALSE ELSE mounts[k].fstype = "tmpfs"

\* the size option taken for mebibytes
has_correct_size_in_mib(path, expected_size_gb) ==
    LET k == FirstLine(mounts, 1, path)
        o == IF k = 0 THEN 0 ELSE FirstOpt(mounts[k].opts, 1)
    IN  IF k = 0 THEN FALSE
        ELSE IF o = 0 THEN FALSE
        ELSE mounts[k].opts[o].value = expected_size_gb * 1024

\* an integer division in the place of the float division
has_correct_size_floor(path, expected_size_gb) ==
    LET k == FirstLine(mounts, 1, path)
        o == IF k = 0 THEN 0 ELSE FirstOpt(mounts[k].opts, 1)
    IN  IF k = 0 THEN FALSE
        ELSE IF o = 0 THEN FALSE
        ELSE mounts[k].opts[o].value \div KiBPerGiB = expected_size_gb

\* size_kb / (1024 * 1024) == expected_size_gb, a float comparison: equal
\* exactly when size_kb is expected_size_gb whole gibibytes
has_correct_size(path, expected_size_gb) ==
    LET k == FirstLine(mounts, 1, path)
        o == IF k = 0 THEN 0 ELSE FirstOpt(mounts[k].opts, 1)
    IN  IF k = 0 THEN FALSE
        ELSE IF o = 0 THEN FALSE
        ELSE mounts[k].opts[o].value = expected_size_gb * KiBPerGiB

mkdir_cmd(ramdisk_path) == <<"sudo", "mkdir", "-p", ramdisk_path>>

mount_cmd(ramdisk_path, ramdisk_size) ==
    <<"sudo", "mount", "-t", "tmpfs", "-o", "size=" \o ToString(ramdisk_size) \o "G",
      "tmpfs", ramdisk_path>>

\* what mount -t tmpfs -o size=<n>G does to the mount table: the kernel
\* reports the size in KiB
Mounted(table, path, size_gb) ==
    Append(table, MountLine(normpath(path), "tmpfs", size_gb * KiBPerGiB))

----------------------------------------------------------------------------
(* main(): startup, lines 337-362 *)

TopKeys == {"vm", "disks", "ramdisk", "network"}

ValidExts == {".yml", ".yaml"}

\* load_config of virtbuilder.conf, parse_args, the extension check,
\* load_config of the VM document and the four top-level lookups
main_start ==
    /\ pc = "main"
    /\ IF ~cfg.defaultconf.exists THEN Exit(1, "sys.exit: defaultconffile not found")
       ELSE IF cfg.vmconffile.ext \notin ValidExts THEN Exit(1, "sys.exit: extension")
       ELSE IF ~cfg.vmconffile.exists THEN Exit(1, "sys.exit: vmconffile not found")
       ELSE IF ~(TopKeys \subseteq cfg.keys) THEN Exit(1, "KeyError")
       ELSE Goto("mount_ramdisk")
    /\ UNCHANGED <<cfg, log, fs, mounts, domain, link, xmlfile, virtinstall_cmd, vm_xml,
                   i, reported, env0, run, prev, writes, vm_ret>>

\* vmvirtfile = f"{vmconffile_base}.xml"
vmvirtfile == cfg.vmconffile.base \o ".xml"

----------------------------------------------------------------------------
(* main() line 370 and mount_ramdisk, lines 143-167 *)

mount_ramdisk ==
    /\ pc = "mount_ramdisk"
    /\ LET ramdisk == cfg.ramdisk
           run_mkdir == subprocess_run_wrapper(mkdir_cmd(ramdisk.path), None)
           run_mount == subprocess_run_wrapper(mount_cmd(ramdisk.path, ramdisk.size), None)
           made == [fs EXCEPT ![normpath(ramdisk.path)] = "dir"]
       IN  IF ~({"path", "size"} \subseteq ramdisk.keys)
           THEN Exit(1, "KeyError") /\ UNCHANGED <<log, fs, mounts>>
           ELSE IF ~is_mountpoint(ramdisk.path)
           THEN IF Simulated(None)
                THEN /\ log' = log \o <<run_mkdir, run_mount>>
                     /\ Goto("remove_vm")
                     /\ UNCHANGED <<fs, mounts>>
                ELSE \/ /\ fs[normpath(ramdisk.path)] # "file"
                        /\ log' = log \o <<run_mkdir, run_mount>>
                        /\ fs' = made
                        /\ mounts' = Mounted(mounts, ramdisk.path, ramdisk.size)
                        /\ Goto("remove_vm")
                     \/ \* mkdir exits nonzero: CalledProcessError (check=True)
                        /\ log' = Append(log, run_mkdir)
                        /\ Exit(1, "CalledProcessError: mkdir")
                        /\ UNCHANGED <<fs, mounts>>
                     \/ \* mount exits nonzero
                        /\ fs[normpath(ramdisk.path)] # "file"
                        /\ log' = log \o <<run_mkdir, run_mount>>
                        /\ fs' = made
                        /\ Exit(1, "CalledProcessError: mount")
                        /\ UNCHANGED mounts
           ELSE IF ~is_ramdisk(ramdisk.path)
           THEN Exit(1, "sys.exit: not a ramdisk") /\ UNCHANGED <<log, fs, mounts>>
           ELSE IF ~has_correct_size(ramdisk.path, ramdisk.size)
           THEN Exit(1, "sys.exit: ramdisk size") /\ UNCHANGED <<log, fs, mounts>>
           ELSE Goto("remove_vm") /\ UNCHANGED <<log, fs, mounts>>
    /\ UNCHANGED <<cfg, domain, link, xmlfile, virtinstall_cmd, vm_xml, i, reported, env0, run, prev, writes, vm_ret>>

----------------------------------------------------------------------------
(* VM Teardown: main() lines 372-379, remove_vm, remove_disk *)

Virsh == <<"sudo", "virsh", "--connect=qemu:///system">>

destroy_cmd(vm_name) == Virsh \o <<"destroy", vm_name>>

undefine_cmd(vm_name) ==
    Virsh \o <<"undefine", vm_name, "--managed-save", "--remove-all-storage",
               "--delete-storage-volume-snapshots", "--snapshots-metadata",
               "--checkpoints-metadata", "--nvram">>

\* a teardown that issues no destroy
Destroyed_skipped(d) == d

\* virsh destroy: stops a running domain; a transient one is gone with it;
\* exits nonzero on a domain that is not running
Destroyed(d) ==
    CASE d = "running"   -> "stopped"
      [] d = "transient" -> "absent"
      [] OTHER           -> d

\* virsh undefine: removes the definition; exits nonzero if there is none
Undefined(d) ==
    CASE d = "stopped" -> "absent"
      [] d = "running" -> "transient"
      [] OTHER         -> d

\* undefine --remove-all-storage deletes the volumes of the domain that
\* libvirt manages
StorageRemoved(f) == [p \in Paths |-> IF p \in {Uri(k) : k \in 1..MaxDisks} /\ f[p] = "file"
                                      THEN "none" ELSE f[p]]

remove_vm ==
    /\ pc = "remove_vm"
    /\ IF ~Has(cfg.vm, "name")
       THEN Exit(1, "KeyError") /\ UNCHANGED <<log, domain, fs, i>>
       ELSE /\ log' = log \o <<subprocess_run_wrapper(destroy_cmd(cfg.vm.name), None),
                               subprocess_run_wrapper(undefine_cmd(cfg.vm.name), None)>>
            /\ IF Simulated(None)
               THEN UNCHANGED <<domain, fs>>
               ELSE /\ domain' = Undefined(Destroyed(domain))
                    /\ IF Destroyed(domain) = "stopped"
                       THEN \E managed \in BOOLEAN :
                                fs' = IF managed THEN StorageRemoved(fs) ELSE fs
                       ELSE UNCHANGED fs
            /\ i' = 1
            /\ Goto("remove_disk")
    /\ UNCHANGED <<cfg, mounts, link, xmlfile, virtinstall_cmd, vm_xml, reported, env0, run, prev, writes, vm_ret>>

rm_cmd(uri) == <<"sudo", "rm", uri>>

\* an rm run without check=True: its failure goes unnoticed
remove_disk_fails_unchecked ==
    /\ i' = i + 1
    /\ Goto("remove_disk")
    /\ UNCHANGED fs

\* line 266: rm exits nonzero, CalledProcessError (check=True), which nothing
\* catches
remove_disk_fails ==
    /\ Exit(1, "CalledProcessError: rm")
    /\ UNCHANGED <<fs, i>>

\* a teardown that leaves the targets of the disks where they are
remove_disk_skipped ==
    /\ pc = "remove_disk"
    /\ i <= Len(cfg.disks)
    /\ i' = i + 1
    /\ Goto("remove_disk")
    /\ UNCHANGED <<cfg, log, fs, mounts, domain, link, xmlfile, virtinstall_cmd, vm_xml,
                   reported, env0, run, prev, writes, vm_ret>>

\* one iteration of the loop of lines 375-376
remove_disk ==
    /\ pc = "remove_disk"
    /\ i <= Len(cfg.disks)
    /\ LET disk == cfg.disks[i]
           run_rm == subprocess_run_wrapper(rm_cmd(disk.uri), None)
       IN  IF ~Has(disk, "uri")
           THEN Exit(1, "KeyError") /\ UNCHANGED <<log, fs, i>>
           ELSE IF ~exists(disk.uri)
           THEN Goto("remove_disk") /\ i' = i + 1 /\ UNCHANGED <<log, fs>>
           ELSE /\ log' = Append(log, run_rm)
                /\ IF Simulated(None)
                   THEN Goto("remove_disk") /\ i' = i + 1 /\ UNCHANGED fs
                   ELSE \/ /\ fs[disk.uri] = "file"
                           /\ fs' = [fs EXCEPT ![disk.uri] = "none"]
                           /\ i' = i + 1
                           /\ Goto("remove_disk")
                        \/ remove_disk_fails
    /\ UNCHANGED <<cfg, mounts, domain, link, xmlfile, virtinstall_cmd, vm_xml, reported, env0, run, prev, writes, vm_ret>>

\* a run that does not look at the remove flag
check_remove_ignored ==
    /\ pc = "remove_disk"
    /\ i > Len(cfg.disks)
    /\ Goto("recreate_disk")
    /\ i' = 1
    /\ UNCHANGED <<cfg, log, fs, mounts, domain, link, xmlfile, virtinstall_cmd, vm_xml,
                   reported, env0, run, prev, writes, vm_ret>>

\* lines 377-379: the remove flag ends the run after the teardown
check_remove ==
    /\ pc = "remove_disk"
    /\ i > Len(cfg.disks)
    /\ IF cfg.remove
       THEN Exit(0, "sys.exit: remove") /\ UNCHANGED i
       ELSE Goto("recreate_disk") /\ i' = 1
    /\ UNCHANGED <<cfg, log, fs, mounts, domain, link, xmlfile, virtinstall_cmd, vm_xml,
                   reported, env0, run, prev, writes, vm_ret>>

----------------------------------------------------------------------------
(* Disk Materializer: main() lines 382-384, recreate_disk and what it calls *)

QemuImg == <<"sudo", "qemu-img">>

\* a create command whose size has no unit
create_cmd_no_unit(disk_uri, size, disk_format) ==
    QemuImg \o <<"create", "-f", disk_format, "-o", "preallocation=off", disk_uri,
                 ToString(size)>>

create_cmd(disk_uri, size, disk_format) ==
    QemuImg \o <<"create", "-f", disk_format, "-o", "preallocation=off", disk_uri,
                 ToString(size) \o "G">>

convert_cmd(disk_uri_in, disk_uri_out, disk_format_in, disk_format_out) ==
    QemuImg \o <<"convert", "-p", "-f", disk_format_in, "-O", disk_format_out,
                 "-o", "preallocation=off", disk_uri_in, disk_uri_out>>

resize_cmd(disk_uri, new_size, disk_format) ==
    QemuImg \o <<"resize", "-f", disk_format, "-o", "preallocation=off", disk_uri,
                 ToString(new_size) \o "G">>

\* line 271: the disk is converted from its source image
ConversionMode(disk) == Has(disk, "imgfile") /\ isfile(disk.imgfile)

NextDisk ==
    /\ i' = i + 1
    /\ Goto("recreate_disk")

\* line 232: the line convert_disk prints when the command fails
convert_error(disk) ==
    "[ERROR] Failed to convert image '" \o disk.imgfile \o "' to disk '" \o disk.uri \o "'"

\* line 258: the line resize_disk prints when the command fails
resize_error(disk) == "[ERROR] Failed to resize disk '" \o disk.uri \o "'"

\* a convert_disk that prints the failure and returns
convert_disk_fails_returns(disk) ==
    /\ reported' = reported \cup {convert_error(disk)}
    /\ NextDisk

\* lines 231-233: the failure of the convert command is caught, printed, and
\* ends the process
convert_disk_fails(disk) ==
    /\ reported' = reported \cup {convert_error(disk)}
    /\ Exit(1, "sys.exit: convert failed")
    /\ UNCHANGED i

\* a resize_disk that ends the process when the command fails
resize_disk_fails_exits(disk) ==
    /\ reported' = reported \cup {resize_error(disk)}
    /\ Exit(1, "sys.exit: resize failed")
    /\ UNCHANGED i

\* lines 257-258: the failure of the resize command is caught and printed,
\* and resize_disk returns
resize_disk_fails(disk) ==
    /\ reported' = reported \cup {resize_error(disk)}
    /\ NextDisk

\* lines 272-287: convert_disk, then resize_disk when a size is given
convert_branch(disk) ==
    LET run_convert == subprocess_run_wrapper(
                           convert_cmd(disk.imgfile, disk.uri, disk.imgformat, disk.format),
                           None)
        run_resize  == subprocess_run_wrapper(
                           resize_cmd(disk.uri, disk.size, disk.format), None)
        converted   == [fs EXCEPT ![disk.uri] = "file"]
    IN  IF ~({"uri", "imgformat", "format"} \subseteq disk.keys)
        THEN Exit(1, "KeyError") /\ UNCHANGED <<log, fs, i, reported>>
        ELSE IF ~exists(disk.imgfile)
        THEN Exit(1, "sys.exit: imgfile does not exist") /\ UNCHANGED <<log, fs, i, reported>>
        ELSE IF Simulated(None)
        THEN /\ log' = log \o (IF Has(disk, "size") THEN <<run_convert, run_resize>>
                               ELSE <<run_convert>>)
             /\ NextDisk
             /\ UNCHANGED <<fs, reported>>
        ELSE \/ \* convert exits nonzero
                /\ log' = Append(log, run_convert)
                /\ convert_disk_fails(disk)
                /\ UNCHANGED fs
             \/ /\ ~Has(disk, "size")
                /\ log' = Append(log, run_convert)
                /\ fs' = converted
                /\ NextDisk
                /\ UNCHANGED reported
             \/ /\ Has(disk, "size")
                /\ log' = log \o <<run_convert, run_resize>>
                /\ fs' = converted
                /\ \/ NextDisk /\ UNCHANGED reported
                   \/ \* resize exits nonzero
                      resize_disk_fails(disk)

\* a create_disk that runs the command without check=True
create_disk_fails_unchecked ==
    /\ NextDisk
    /\ UNCHANGED fs

\* line 203: the create command exits nonzero, CalledProcessError (check=True),
\* which nothing catches
create_disk_fails ==
    /\ Exit(1, "CalledProcessError: create")
    /\ UNCHANGED <<fs, i>>

\* lines 288-289 and create_disk
create_branch(disk) ==
    LET run_create == subprocess_run_wrapper(
                          create_cmd(disk.uri, disk.size, disk.format), None)
    IN  IF ~({"uri", "size", "format"} \subseteq disk.keys)
        THEN Exit(1, "KeyError") /\ UNCHANGED <<log, fs, i, reported>>
        ELSE /\ log' = Append(log, run_create)
             /\ UNCHANGED reported
             /\ IF Simulated(None)
                THEN NextDisk /\ UNCHANGED fs
                ELSE \/ /\ fs' = [fs EXCEPT ![disk.uri] = "file"]
                        /\ NextDisk
                     \/ create_disk_fails

\* one iteration of the loop of lines 383-384
recreate_disk ==
    /\ pc = "recreate_disk"
    /\ i <= Len(cfg.disks)
    /\ IF ConversionMode(cfg.disks[i])
       THEN convert_branch(cfg.disks[i])
       ELSE create_branch(cfg.disks[i])
    /\ UNCHANGED <<cfg, mounts, domain, link, xmlfile, virtinstall_cmd, vm_xml, env0, run, prev, writes, vm_ret>>

----------------------------------------------------------------------------
(* Definition Synthesizer: main() lines 386-520 *)

Stay == UNCHANGED <<cfg, log, fs, mounts, domain, link, xmlfile, vm_xml, i, reported, env0, run, prev, writes, vm_ret>>

\* lines 388-403: the fixed arguments and the usb controller
build_cmd ==
    /\ pc = "recreate_disk"
    /\ i > Len(cfg.disks)
    /\ LET vm == cfg.vm
       IN  IF ~({"os_variant", "name", "vcpus", "memory"} \subseteq vm.keys)
           THEN Exit(1, "KeyError") /\ UNCHANGED virtinstall_cmd
           ELSE /\ virtinstall_cmd' =
                       <<"sudo", "virt-install", "--connect=qemu:///system",
                         "--noautoconsole", "--print-xml", "--hvm", "--cpu=host-model",
                         "--features=kvm_hidden=on",
                         "--os-variant=" \o vm.os_variant,
                         "--name=" \o vm.name,
                         "--vcpus=" \o ToString(vm.vcpus),
                         "--memory=" \o ToString(vm.memory)>>
                       \o (IF Get(vm, "usbver", "False") = "2"
                           THEN <<"--controller=usb2">> ELSE <<>>)
                /\ Goto("bios")
    /\ Stay

BootSecure == "--boot=uefi,firmware.feature0.name=secure-boot,firmware.feature0.enabled=yes,firmware.feature1.name=enrolled-keys,firmware.feature1.enabled=yes"

BootInsecure == "--boot=uefi,firmware.feature0.name=secure-boot,firmware.feature0.enabled=no"

\* lines 405-417
bios ==
    /\ pc = "bios"
    /\ LET vm == cfg.vm
       IN  IF ~Has(vm, "bios")
           THEN Exit(1, "KeyError") /\ UNCHANGED virtinstall_cmd
           ELSE IF vm.bios = "efi"
           THEN IF ~Has(vm, "secureboot")
                THEN Exit(1, "KeyError") /\ UNCHANGED virtinstall_cmd
                ELSE /\ virtinstall_cmd' = Append(virtinstall_cmd,
                            IF vm.secureboot THEN BootSecure ELSE BootInsecure)
                     /\ Goto("graphics")
           ELSE IF vm.bios = "legacy"
           THEN /\ virtinstall_cmd' = Append(virtinstall_cmd, "-boot=uefi=off")
                /\ Goto("graphics")
           ELSE Exit(1, "sys.exit: unknown bios") /\ UNCHANGED virtinstall_cmd
    /\ Stay

\* a match whose wildcard case gives no display instead of ending the run
graphics_args_default_none(mode) ==
    CASE mode = "3d"    -> <<"--graphics=spice,listen=none,gl.enable=yes",
                             "--video=virtio,model.acceleration.accel3d=yes">>
      [] mode = "spice" -> <<"--graphics=spice">>
      [] mode = "vnc"   -> <<"--graphics=vnc">>
      [] OTHER -> <<"--graphics=none">>

\* the arguments of a graphics mode, lines 421-430; <<>> for a mode with no case
graphics_args(mode) ==
    CASE mode = "3d"    -> <<"--graphics=spice,listen=none,gl.enable=yes",
                             "--video=virtio,model.acceleration.accel3d=yes">>
      [] mode = "spice" -> <<"--graphics=spice">>
      [] mode = "vnc"   -> <<"--graphics=vnc">>
      [] mode = "serial_console" -> <<"--graphics=none">>
      [] OTHER -> <<>>

\* lines 419-433
graphics ==
    /\ pc = "graphics"
    /\ IF ~Has(cfg.vm, "graphics")
       THEN Exit(1, "KeyError") /\ UNCHANGED virtinstall_cmd
       ELSE IF graphics_args(cfg.vm.graphics) = <<>>
       THEN Exit(1, "sys.exit: unknown graphics") /\ UNCHANGED virtinstall_cmd
       ELSE /\ virtinstall_cmd' = virtinstall_cmd \o graphics_args(cfg.vm.graphics)
            /\ Goto("disk_args")
    /\ Stay

\* line 440
bus_of(disk) == Get(disk, "bus", "scsi")

\* lines 441-444
disk_snippet(disk) ==
    "--disk=path=" \o disk.uri \o ",format=" \o disk.format \o ",bus=" \o bus_of(disk)
    \o ",cache=writethrough,driver.discard='unmap',io=threads,sparse=yes"
    \o (IF Get(disk, "readonly", FALSE) THEN ",readonly=yes" ELSE "")

ScsiController == "--controller=type=scsi,model=virtio-scsi"

\* a loop that adds the controller at every scsi disk
disk_loop_body_controller_per_disk(acc, disk) ==
    IF ~acc.ok \/ ~({"uri", "format"} \subseteq disk.keys)
    THEN [acc EXCEPT !.ok = FALSE]
    ELSE [cmd |-> Append(acc.cmd, disk_snippet(disk))
                  \o (IF bus_of(disk) = "scsi"
                      THEN <<"--controller=type=scsi,model=virtio-scsi">> ELSE <<>>),
          scsi_controller |-> acc.scsi_controller \/ bus_of(disk) = "scsi",
          ok |-> TRUE]

\* one iteration of the loop of lines 439-447 on the loop's state
\* acc = [cmd, scsi_controller, ok]; ok turns false at a KeyError
disk_loop_body(acc, disk) ==
    IF ~acc.ok \/ ~({"uri", "format"} \subseteq disk.keys)
    THEN [acc EXCEPT !.ok = FALSE]
    ELSE [cmd |-> Append(acc.cmd, disk_snippet(disk)),
          scsi_controller |-> acc.scsi_controller \/ bus_of(disk) = "scsi",
          ok |-> TRUE]

RECURSIVE disk_loop(_, _, _)
disk_loop(acc, disks, k) ==
    IF k > Len(disks) THEN acc
    ELSE disk_loop(disk_loop_body(acc, disks[k]), disks, k + 1)

\* lines 448-450
disk_loop_end(acc) ==
    Append(acc.cmd, "--check=disk_size=off")
    \o (IF acc.scsi_controller THEN <<ScsiController>> ELSE <<>>)

\* lines 436-450
disk_args ==
    /\ pc = "disk_args"
    /\ LET acc == disk_loop([cmd |-> virtinstall_cmd, scsi_controller |-> FALSE,
                             ok |-> TRUE], cfg.disks, 1)
       IN  IF ~acc.ok
           THEN Exit(1, "KeyError") /\ UNCHANGED virtinstall_cmd
           ELSE /\ virtinstall_cmd' = disk_loop_end(acc)
                /\ Goto("network")
    /\ Stay

\* the keys of the network entry the case of its type reads, in the order read
network_reads(type) ==
    CASE type \in {"nat", "isolated"} -> {"mac"}
      [] type \in {"bridge", "macvtap", "ipvtap"} -> {"parent_interface", "mac"}
      [] OTHER -> {}

\* a match whose wildcard case falls back to nat
network_case_default_nat(type) == IF type \in NetworkTypes THEN type ELSE "nat"

\* the case of the match of line 455 a type selects; "_" is the wildcard case
network_case(type) == IF type \in NetworkTypes THEN type ELSE "_"

\* the --network argument of lines 457-463 and 505 for the case taken
network_arg(net, case) ==
    LET tail == ",mac=" \o net.mac \o ",model=" \o Get(net, "model", "virtio")
    IN  CASE case = "nat"      -> "--network=network=default" \o tail
          [] case = "isolated" -> "--network=network=isolated" \o tail
          [] case = "bridge"   -> "--network=bridge=" \o net.parent_interface \o tail
          [] case \in {"macvtap", "ipvtap"} ->
                 "--network=type=direct,source=" \o net.parent_interface
                 \o ",source_mode=bridge" \o tail

ip_show_cmd == <<"ip", "link", "show", "ipvtap0">>

ip_add_cmd(parent) ==
    <<"ip", "link", "add", "name", "ipvtap0", "link", parent, "type", "ipvtap",
      "mode", "l2", "bridge">>

ip_up_cmd == <<"ip", "link", "set", "up", "ipvtap0">>

\* a probe whose output is never taken to hold "UP"
ip_link_show_never_up(l) == [returncode |-> IF l = "absent" THEN 1 ELSE 0, has_UP |-> FALSE]

\* ip link show ipvtap0: exit status, and whether its output holds "UP"
ip_link_show(l) == [returncode |-> IF l = "absent" THEN 1 ELSE 0, has_UP |-> l = "up"]

\* lines 464-503 for the outcomes add_ok and up_ok of the two commands:
\* the lines printed, the link afterwards and what, if anything, ended the run
ipvtap_provision(net, add_ok, up_ok) ==
    LET sim      == Simulated(None)
        show     == subprocess_run_wrapper(ip_show_cmd, "False")
        need_add == ip_link_show(link).returncode # 0
        no_parent == need_add /\ ~Has(net, "parent_interface")
        log1     == IF need_add /\ ~no_parent
                    THEN <<show, subprocess_run_wrapper(ip_add_cmd(net.parent_interface), None)>>
                    ELSE <<show>>
        add_failed == need_add /\ ~no_parent /\ ~sim /\ ~add_ok
        link1    == IF need_add /\ ~no_parent /\ ~sim /\ add_ok THEN "down" ELSE link
        need_up  == ~ip_link_show(link1).has_UP
        log2     == log1 \o <<show>>
                    \o (IF need_up THEN <<subprocess_run_wrapper(ip_up_cmd, None)>> ELSE <<>>)
        up_failed == need_up /\ ~sim /\ (~up_ok \/ link1 = "absent")
        link2    == IF need_up /\ ~sim /\ ~up_failed THEN "up" ELSE link1
    IN  IF no_parent THEN [log |-> log1, link |-> link, err |-> "KeyError"]
        ELSE IF add_failed
        THEN [log |-> log1, link |-> link, err |-> "CalledProcessError: ip link add"]
        ELSE IF up_failed
        THEN [log |-> log2, link |-> link1, err |-> "CalledProcessError: ip link set up"]
        ELSE [log |-> log2, link |-> link2, err |-> "none"]

\* lines 453-508
network ==
    /\ pc = "network"
    /\ LET net  == cfg.network
           case == network_case(net.type)
       IN  IF ~Has(net, "type")
           THEN Exit(1, "KeyError") /\ UNCHANGED <<virtinstall_cmd, log, link>>
           ELSE IF case = "_"
           THEN Exit(1, "sys.exit: unknown network type")
                /\ UNCHANGED <<virtinstall_cmd, log, link>>
           ELSE IF case = "ipvtap"
           THEN \E add_ok, up_ok \in BOOLEAN :
                  LET r == ipvtap_provision(net, add_ok, up_ok)
                  IN  /\ log' = log \o r.log
                      /\ link' = r.link
                      /\ IF r.err # "none"
                         THEN Exit(1, r.err) /\ UNCHANGED virtinstall_cmd
                         ELSE IF ~(network_reads(case) \subseteq net.keys)
                         THEN Exit(1, "KeyError") /\ UNCHANGED virtinstall_cmd
                         ELSE /\ virtinstall_cmd' =
                                     Append(virtinstall_cmd, network_arg(net, case))
                              /\ Goto("virt_install")
           ELSE /\ UNCHANGED <<log, link>>
                /\ IF ~(network_reads(case) \subseteq net.keys)
                   THEN Exit(1, "KeyError") /\ UNCHANGED virtinstall_cmd
                   ELSE /\ virtinstall_cmd' = Append(virtinstall_cmd, network_arg(net, case))
                        /\ Goto("virt_install")
    /\ UNCHANGED <<cfg, fs, mounts, domain, xmlfile, vm_xml, i, reported, env0, run, prev, writes, vm_ret>>

----------------------------------------------------------------------------
(* The generated definition: the <disk> elements of the domain document *)

\* a <disk> element: its <source> (if any) with its attributes, and its
\* <target> (if any) with its attributes
Element(has_source, source_attrs, file, has_target, target_attrs) ==
    [has_source |-> has_source, source_attrs |-> source_attrs, file |-> file,
     has_target |-> has_target, target_attrs |-> target_attrs]

\* the element virt-install generates for a --disk argument
DiskElement(disk) == Element(TRUE, {"file"}, disk.uri, TRUE, {"dev", "bus"})

\* other elements a generated document can hold in the place of one of these
ElementVariants(uri) ==
    {Element(FALSE, {}, "", TRUE, {"dev", "bus"}),
     Element(TRUE, {}, "", TRUE, {"dev", "bus"}),
     Element(TRUE, {"file"}, ImgFile, TRUE, {"dev", "bus"}),
     Element(TRUE, {"file"}, uri, FALSE, {}),
     Element(TRUE, {"file"}, uri, TRUE, {"bus"}),
     Element(TRUE, {"file"}, uri, TRUE, {"dev"})}

\* the documents virt-install --print-xml may print for the disks.  Only the
\* patcher reads the elements, and only for a disk flagged removable: with no
\* such disk the document with one generated element per disk stands for all.
GeneratedXml(disks) ==
    LET faithful == [k \in 1..Len(disks) |-> DiskElement(disks[k])]
    IN  {faithful} \cup
        (IF \E k \in 1..Len(disks) : Get(disks[k], "removable", FALSE)
         THEN {[faithful EXCEPT ![k] = v] :
                  k \in 1..Len(disks), v \in UNION {ElementVariants(disks[j].uri) :
                                                      j \in 1..Len(disks)}}
         ELSE {})

\* vm_ret before virt-install has run
NoRet == [called |-> FALSE, returncode |-> 0, stderr |-> ""]

\* a test of the exit status alone
vm_ret_failed_returncode_only(ret) == ret.returncode # 0

\* line 516: vm_ret.returncode != 0 or vm_ret.stderr
vm_ret_failed(ret) == ret.returncode # 0 \/ ret.stderr # ""

\* lines 510-523
virt_install ==
    /\ pc = "virt_install"
    /\ LET run_virtinstall == subprocess_run_wrapper(virtinstall_cmd, None)
       IN  /\ log' = Append(log, run_virtinstall)
           /\ IF run_virtinstall.returns = None
              THEN \* vm_ret is None: vm_ret.returncode raises AttributeError
                   Exit(1, "AttributeError") /\ UNCHANGED <<vm_xml, i, vm_ret>>
              ELSE \E returncode \in {0, 1}, stderr \in {"", "WARNING"} :
                     LET ret == [called |-> TRUE, returncode |-> returncode,
                                 stderr |-> stderr]
                     IN  /\ vm_ret' = ret
                         /\ IF vm_ret_failed(ret)
                            THEN Exit(1, "sys.exit: virt-install failed")
                                 /\ UNCHANGED <<vm_xml, i>>
                            ELSE \E stdout \in GeneratedXml(cfg.disks) :
                                   /\ vm_xml' = stdout
                                   /\ i' = 1
                                   /\ Goto("patch")
    /\ UNCHANGED <<cfg, fs, mounts, domain, link, xmlfile, virtinstall_cmd, reported, env0,
                   run, prev, writes>>

----------------------------------------------------------------------------
(* Definition Patcher: main() lines 525-529 and set_disk_removable *)

\* lines 324-329 on one element
patch_element(el, disk) ==
    IF /\ "file" \in el.source_attrs
       /\ el.file = disk.uri
       /\ el.has_target
       /\ {"dev", "bus"} \subseteq el.target_attrs
    THEN [el EXCEPT !.target_attrs = @ \cup {"removable"}]
    ELSE el

\* line 323 reads source.attrib of every element: AttributeError if one has no <source>
set_disk_removable_raises(xml) == \E k \in 1..Len(xml) : ~xml[k].has_source

set_disk_removable(xml, disk) == [k \in 1..Len(xml) |-> patch_element(xml[k], disk)]

\* one iteration of the loop of lines 527-529
patch ==
    /\ pc = "patch"
    /\ i <= Len(cfg.disks)
    /\ IF ~Get(cfg.disks[i], "removable", FALSE)
       THEN i' = i + 1 /\ Goto("patch") /\ UNCHANGED vm_xml
       ELSE IF set_disk_removable_raises(vm_xml)
       THEN Exit(1, "AttributeError") /\ UNCHANGED <<vm_xml, i>>
       ELSE /\ vm_xml' = set_disk_removable(vm_xml, cfg.disks[i])
            /\ i' = i + 1
            /\ Goto("patch")
    /\ UNCHANGED <<cfg, log, fs, mounts, domain, link, xmlfile, virtinstall_cmd, reported,
                   env0, run, prev, writes, vm_ret>>

----------------------------------------------------------------------------
(* Activator: main() lines 531-543 *)

\* a write that does not wait for the patch loop to end
write_xml_early ==
    /\ pc = "patch"
    /\ xmlfile' = vm_xml
    /\ writes' = writes + 1
    /\ Goto("define")
    /\ UNCHANGED <<cfg, log, fs, mounts, domain, link, virtinstall_cmd, vm_xml, i, reported,
                   env0, run, prev, vm_ret>>

\* a write whose failure is printed and does not end the run
write_xml_unchecked ==
    /\ pc = "patch"
    /\ i > Len(cfg.disks)
    /\ Goto("define")
    /\ \/ xmlfile' = vm_xml /\ writes' = writes + 1
       \/ UNCHANGED <<xmlfile, writes>>
    /\ UNCHANGED <<cfg, log, fs, mounts, domain, link, virtinstall_cmd, vm_xml, i, reported,
                   env0, run, prev, vm_ret>>

\* lines 531-538
write_xml ==
    /\ pc = "patch"
    /\ i > Len(cfg.disks)
    /\ \/ /\ xmlfile' = vm_xml
          /\ writes' = writes + 1
          /\ Goto("define")
       \/ \* open raises IOError
          Exit(1, "sys.exit: IOError") /\ UNCHANGED <<xmlfile, writes>>
       \/ \* open truncates the file and write raises IOError
          /\ xmlfile' = <<>>
          /\ Exit(1, "sys.exit: IOError")
          /\ UNCHANGED writes
    /\ UNCHANGED <<cfg, log, fs, mounts, domain, link, virtinstall_cmd, vm_xml, i, reported,
                   env0, run, prev, vm_ret>>

define_cmd(file) == Virsh \o <<"define", file>>

start_cmd(vm_name) == Virsh \o <<"start", vm_name>>

viewer_cmd(vm_name) == <<"virt-viewer", "--connect=qemu:///system", "--attach", vm_name>>

\* a command run without check=True: its failure goes unnoticed
Activate_unchecked(here, command, d, there) ==
    /\ pc = here
    /\ log' = Append(log, subprocess_run_wrapper(command, None))
    /\ Goto(there)
    /\ IF Simulated(None) THEN UNCHANGED domain ELSE domain' = d \/ UNCHANGED domain
    /\ UNCHANGED <<cfg, fs, mounts, link, xmlfile, virtinstall_cmd, vm_xml, i, reported,
                   env0, run, prev, writes, vm_ret>>

\* a command run with check=True that changes the domain to d when it succeeds
Activate(here, command, d, there) ==
    /\ pc = here
    /\ log' = Append(log, subprocess_run_wrapper(command, None))
    /\ IF Simulated(None)
       THEN Goto(there) /\ UNCHANGED domain
       ELSE \/ domain' = d /\ Goto(there)
            \/ Exit(1, "CalledProcessError: " \o command[Len(command) - 1])
               /\ UNCHANGED domain
    /\ UNCHANGED <<cfg, fs, mounts, link, xmlfile, virtinstall_cmd, vm_xml, i, reported,
                   env0, run, prev, writes, vm_ret>>

\* line 541
define == Activate("define", define_cmd(vmvirtfile),
                   IF domain = "absent" THEN "stopped" ELSE domain, "start")

\* line 542
start == Activate("start", start_cmd(cfg.vm.name), "running", "viewer")

\* line 543; main() returns after it
viewer ==
    /\ pc = "viewer"
    /\ log' = Append(log, subprocess_run_wrapper(viewer_cmd(cfg.vm.name), None))
    /\ IF Simulated(None)
       THEN Exit(0, "none")
       ELSE \/ Exit(0, "none")
            \/ Exit(1, "CalledProcessError: virt-viewer")
    /\ UNCHANGED <<cfg, fs, mounts, domain, link, xmlfile, virtinstall_cmd, vm_xml, i,
                   reported, env0, run, prev, writes, vm_ret>>

----------------------------------------------------------------------------
(* The process *)

NoRun == [log |-> <<>>, status |-> "none", err |-> "none", env0 |-> BaseEnv]

InitOf(scenarios) ==
    \E s \in scenarios :
        /\ cfg = s.cfg
        /\ fs = s.env.fs
        /\ mounts = s.env.mounts
        /\ domain = s.env.domain
        /\ link = s.env.link
        /\ xmlfile = s.env.xmlfile
        /\ env0 = s.env
        /\ pc = "main"
        /\ status = "running"
        /\ err = "none"
        /\ log = <<>>
        /\ virtinstall_cmd = <<>>
        /\ vm_xml = <<>>
        /\ i = 0
        /\ reported = {}
        /\ run = 1
        /\ prev = NoRun
        /\ writes = 0
        /\ vm_ret = NoRet

Init == InitOf(Scenarios)

Next ==
    \/ main_start
    \/ mount_ramdisk
    \/ remove_vm
    \/ remove_disk
    \/ check_remove
    \/ recreate_disk
    \/ build_cmd
    \/ bios
    \/ graphics
    \/ disk_args
    \/ network
    \/ virt_install
    \/ patch
    \/ write_xml
    \/ define
    \/ start
    \/ viewer

\* one run of the program
Spec == Init /\ [][Next]_vars

\* the program is run again, with the same arguments and documents, on the
\* environment the run before left
Rerun ==
    /\ pc = "exit"
    /\ run < MaxRuns
    /\ run' = run + 1
    /\ prev' = [log |-> log, status |-> status, err |-> err, env0 |-> env0]
    /\ env0' = [fs |-> fs, mounts |-> mounts, domain |-> domain, link |-> link,
                xmlfile |-> xmlfile]
    /\ pc' = "main"
    /\ status' = "running"
    /\ err' = "none"
    /\ log' = <<>>
    /\ virtinstall_cmd' = <<>>
    /\ vm_xml' = <<>>
    /\ i' = 0
    /\ reported' = {}
    /\ writes' = 0
    /\ vm_ret' = NoRet
    /\ UNCHANGED <<cfg, fs, mounts, domain, link, xmlfile>>

RerunScenarios == RamdiskFamily \cup TeardownFamily \cup NetworkFamily

NextRerun == Next \/ Rerun

\* runs of the program one after the other
SpecRerun == InitOf(RerunScenarios) /\ [][NextRerun]_vars

----------------------------------------------------------------------------
(* What the claims speak of *)

\* the command a printed line is of
Kind(e) ==
    CASE e.cmd[1] = "ip"           -> "ip link " \o e.cmd[3]
      [] e.cmd[1] = "virt-viewer"  -> "virt-viewer"
      [] e.cmd[2] = "virsh"        -> e.cmd[4]
      [] e.cmd[2] = "qemu-img"     -> e.cmd[3]
      [] OTHER                     -> e.cmd[2]

\* the commands of a kind the run printed, with a tag
Lines(l, tag, kind) == {k \in 1..Len(l) : l[k].tag = tag /\ Kind(l[k]) = kind}

Issued(kind) == Lines(log, "EXECUTING", kind) \cup Lines(log, "DRY-RUN", kind) # {}

Executed(kind) == Lines(log, "EXECUTING", kind) # {}

WouldExecute(kind) == Lines(log, "DRY-RUN", kind) # {}

Env == [fs |-> fs, mounts |-> mounts, domain |-> domain, link |-> link, xmlfile |-> xmlfile]

\* the lines of the mount table at process start that are of the ramdisk path
RamdiskLines ==
    {k \in 1..Len(env0.mounts) : normpath(env0.mounts[k].mp) = normpath(cfg.ramdisk.path)}

\* a line of another type than tmpfs, or of another size than the one requested
IncompatibleLine(line) ==
    \/ line.fstype # "tmpfs"
    \/ ~\E o \in 1..Len(line.opts) :
           /\ line.opts[o].name = "size"
           /\ line.opts[o].value = cfg.ramdisk.size * KiBPerGiB

IncompatibleRamdisk == \E k \in RamdiskLines : IncompatibleLine(env0.mounts[k])

\* a document with every key the pipeline reads and recognised values, a disk
\* in conversion mode having its source image
ValidConfiguration ==
    /\ cfg.defaultconf.exists
    /\ cfg.vmconffile.exists
    /\ cfg.vmconffile.ext \in ValidExts
    /\ TopKeys \subseteq cfg.keys
    /\ BaseVm.keys \subseteq cfg.vm.keys
    /\ cfg.vm.bios \in {"efi", "legacy"}
    /\ cfg.vm.graphics \in {"3d", "spice", "vnc"}
    /\ BaseRamdisk.keys \subseteq cfg.ramdisk.keys
    /\ BaseNetwork.keys \subseteq cfg.network.keys
    /\ cfg.network.type \in NetworkTypes
    /\ \A k \in 1..Len(cfg.disks) :
          LET disk == cfg.disks[k]
          IN  /\ {"uri", "format"} \subseteq disk.keys
              /\ IF Has(disk, "imgfile")
                 THEN Has(disk, "imgformat") /\ env0.fs[disk.imgfile] = "file"
                 ELSE Has(disk, "size")

----------------------------------------------------------------------------
(* C1: with the process-wide simulation flag active, the filesystem (the    *)
(* definition file included), the mount table, the domain and the link are  *)
(* in every state of the run what they were when the process started.       *)
DryRunPurity == defaultconfig_dry_run => Env = env0

\* a simulated run that got through the teardown, the disks and the synthesis,
\* over a stale disk file, a running domain or an unmounted ramdisk
DryRunPurityWitness ==
    /\ defaultconfig_dry_run
    /\ pc = "exit"
    /\ WouldExecute("mount") /\ WouldExecute("undefine") /\ WouldExecute("create")
    /\ WouldExecute("virt-install")
    /\ env0.domain = "running" \/ env0.fs[Uri(1)] = "file"

(* C2: a simulated run over a valid configuration, with no incompatible     *)
(* ramdisk mount and no remove flag, has at its end logged the would-execute *)
(* line of every stage: mkdir and mount (when not mounted), destroy,        *)
(* undefine, one create or convert per disk, the definition generation,     *)
(* define, start and the viewer.                                            *)
DryRunCompleteness ==
    (/\ defaultconfig_dry_run
     /\ ValidConfiguration
     /\ ~cfg.remove
     /\ ~IncompatibleRamdisk
     /\ pc = "exit")
    => /\ (RamdiskLines = {} => WouldExecute("mkdir") /\ WouldExecute("mount"))
       /\ WouldExecute("destroy") /\ WouldExecute("undefine")
       /\ Cardinality(Lines(log, "DRY-RUN", "create") \cup Lines(log, "DRY-RUN", "convert"))
              = Len(cfg.disks)
       /\ WouldExecute("virt-install")
       /\ WouldExecute("define") /\ WouldExecute("start") /\ WouldExecute("virt-viewer")

(* C3: once the loop of recreate_disk has come to a disk that names a       *)
(* source image that does not exist, no create, convert or resize command is *)
(* issued for that disk or a later one, and the loop does not go past it.   *)
ConversionRequiresSource ==
    \A k \in 1..Len(cfg.disks) :
        (/\ Has(cfg.disks[k], "imgfile")
         /\ ~exists(cfg.disks[k].imgfile)
         /\ pc \notin {"main", "mount_ramdisk", "remove_vm", "remove_disk"})
        => /\ Cardinality({n \in 1..Len(log) : Kind(log[n]) \in {"create", "convert"}}) < k
           /\ pc = "recreate_disk" => i <= k

\* what mount_ramdisk can end the process with
RamdiskErrors ==
    {"sys.exit: not a ramdisk", "sys.exit: ramdisk size", "CalledProcessError: mkdir",
     "CalledProcessError: mount"}

\* the run before found the path not mounted and mounted it
PrevMounted ==
    /\ run > 1
    /\ \A k \in 1..Len(prev.env0.mounts) :
          normpath(prev.env0.mounts[k].mp) # normpath(cfg.ramdisk.path)
    /\ Lines(prev.log, "EXECUTING", "mount") # {}
    /\ prev.err # "CalledProcessError: mount"

(* C4: when a run that found the ramdisk path not mounted has mounted it,   *)
(* the next run with the same path and size issues no mkdir and no mount    *)
(* command, and mount_ramdisk does not end it with an error.                *)
IdempotentRamdisk ==
    PrevMounted => /\ ~Issued("mkdir") /\ ~Issued("mount")
                   /\ err \notin RamdiskErrors

\* the second run is past mount_ramdisk
IdempotentRamdiskWitness ==
    /\ PrevMounted
    /\ pc = "remove_vm"
    /\ cfg.ramdisk.size = MaxSize

(* C5: when the ramdisk path is mounted at process start with another       *)
(* filesystem type than tmpfs, or with a size option that is not the        *)
(* requested number of whole gibibytes, or with none, the run ends in       *)
(* mount_ramdisk with a nonzero status: no command at all is issued and no   *)
(* later stage is entered.                                                  *)
IncompatibleRamdiskRefused ==
    (BaseRamdisk.keys \subseteq cfg.ramdisk.keys /\ IncompatibleRamdisk)
    => /\ pc \in {"main", "mount_ramdisk", "exit"}
       /\ log = <<>>
       /\ Env = env0
       /\ pc = "exit" => status = 1

\* refused for a size of a whole number of gibibytes and a half
IncompatibleRamdiskRefusedWitness ==
    /\ IncompatibleRamdisk
    /\ pc = "exit"
    /\ err = "sys.exit: ramdisk size"
    /\ \E k \in RamdiskLines : \E o \in 1..Len(env0.mounts[k].opts) :
          /\ env0.mounts[k].opts[o].name = "size"
          /\ env0.mounts[k].opts[o].value = cfg.ramdisk.size * KiBPerGiB + KiBPerGiB \div 2

(* C6: remove_vm never ends the run, whatever the domain is (absent, defined *)
(* and stopped, running) and in every run of a row of runs: the pipeline    *)
(* goes on to the disk removal, and after a teardown that is not simulated  *)
(* the domain is absent.                                                    *)
TeardownConvergence ==
    [][(pc = "remove_vm" /\ Has(cfg.vm, "name"))
       => /\ pc' = "remove_disk"
          /\ status' = "running"
          /\ ~defaultconfig_dry_run => domain' = "absent"]_vars

\* the second teardown in a row, on the domain the first one removed
TeardownConvergenceWitness ==
    /\ run = 2
    /\ ~defaultconfig_dry_run
    /\ prev.env0.domain = "running"
    /\ Lines(prev.log, "EXECUTING", "undefine") # {}
    /\ env0.domain = "absent"
    /\ Executed("destroy") /\ Executed("undefine")
    /\ pc = "remove_disk"

\* the commands of the stages after the teardown
AfterTeardown ==
    {"create", "convert", "resize", "ip link show", "ip link add", "ip link set",
     "virt-install", "define", "start", "virt-viewer"}

(* C7: with the remove flag the run does the ramdisk reconciliation, the    *)
(* teardown and the disk removal and then exits with status zero: it enters  *)
(* no later stage, issues no create, convert, resize, virt-install, define, *)
(* start or viewer command, generates no definition and writes no file; a   *)
(* run that ends with status zero has issued destroy and undefine and left  *)
(* no disk unvisited, and one that ends otherwise ended on a failure of the *)
(* reconciliation, the teardown or the startup.                             *)
TeardownOnly ==
    cfg.remove
    => /\ pc \in {"main", "mount_ramdisk", "remove_vm", "remove_disk", "exit"}
       /\ \A k \in 1..Len(log) : Kind(log[k]) \notin AfterTeardown
       /\ virtinstall_cmd = <<>> /\ vm_xml = <<>> /\ xmlfile = env0.xmlfile
       /\ (pc = "exit" /\ status = 0)
              => /\ Issued("destroy") /\ Issued("undefine")
                 /\ i = Len(cfg.disks) + 1
                 /\ ~defaultconfig_dry_run =>
                        \A k \in 1..Len(cfg.disks) : ~exists(cfg.disks[k].uri)
       /\ (pc = "exit" /\ status # 0)
              => err \in RamdiskErrors \cup {"KeyError", "CalledProcessError: rm",
                         "sys.exit: defaultconffile not found", "sys.exit: extension",
                         "sys.exit: vmconffile not found"}

\* a teardown-only run that removed a disk file and exited zero
TeardownOnlyWitness ==
    /\ cfg.remove
    /\ pc = "exit"
    /\ status = 0
    /\ Executed("rm")
    /\ Executed("mount")

(* C8: a run that ends on a missing key of the configuration document has   *)
(* executed no command before: no mount, destroy, undefine, disk removal or *)
(* disk creation, and the environment is as it was at process start.        *)
ConfigurationErrorsFirst ==
    (pc = "exit" /\ err = "KeyError")
    => /\ \A k \in 1..Len(log) : log[k].tag # "EXECUTING"
       /\ Env = env0

\* the --network arguments there are for the network entry of the document
NetworkArguments == {network_arg(cfg.network, t) : t \in NetworkTypes}

(* C9: for a network type outside nat, isolated, bridge, macvtap, ipvtap no *)
(* network argument is ever in the argument list, the definition generation *)
(* is never invoked, nothing is generated, written, defined or started, and *)
(* the run ends with a nonzero status unless it is a teardown-only run.     *)
UnrecognizedNetworkType ==
    (Has(cfg.network, "type") /\ cfg.network.type \notin
         {"nat", "isolated", "bridge", "macvtap", "ipvtap"})
    => /\ \A k \in 1..Len(virtinstall_cmd) : virtinstall_cmd[k] \notin NetworkArguments
       /\ pc \notin {"virt_install", "patch", "define", "start", "viewer"}
       /\ \A k \in 1..Len(log) :
             Kind(log[k]) \notin {"virt-install", "define", "start", "virt-viewer",
                                  "ip link show", "ip link add", "ip link set"}
       /\ vm_xml = <<>> /\ xmlfile = env0.xmlfile
       /\ pc = "exit" => status = 1 \/ cfg.remove

\* the run came to the network match and ended there
UnrecognizedNetworkTypeWitness ==
    /\ cfg.network.type = "bogus"
    /\ pc = "exit"
    /\ err = "sys.exit: unknown network type"
    /\ status = 1
    /\ Len(virtinstall_cmd) > 0
    /\ Executed("create")

\* how often an argument is in the argument list
Count(arg) == Cardinality({k \in 1..Len(virtinstall_cmd) : virtinstall_cmd[k] = arg})

\* the disks on the scsi bus, a disk with no bus given being one
ScsiDisks == {k \in 1..Len(cfg.disks) :
                 ~Has(cfg.disks[k], "bus") \/ cfg.disks[k].bus = "scsi"}

(* C10: once the disk arguments are in the argument list, it holds one      *)
(* virtio-scsi controller argument if a disk is on the scsi bus (or has no  *)
(* bus given), however many are, and none otherwise; and the --disk         *)
(* arguments are as many as the disks.                                      *)
ScsiControllerOnce ==
    Count("--check=disk_size=off") > 0
    => /\ Count("--controller=type=scsi,model=virtio-scsi")
              = (IF ScsiDisks = {} THEN 0 ELSE 1)
       /\ Cardinality({k \in 1..Len(virtinstall_cmd) :
              virtinstall_cmd[k] \in {disk_snippet(cfg.disks[d]) : d \in 1..Len(cfg.disks)}})
              = Len(cfg.disks)

\* several scsi disks, with and without a bus given, and one controller
ScsiControllerOnceWitness ==
    /\ Count("--check=disk_size=off") > 0
    /\ Cardinality(ScsiDisks) = MaxDisks
    /\ \E k \in ScsiDisks : Has(cfg.disks[k], "bus")
    /\ \E k \in ScsiDisks : ~Has(cfg.disks[k], "bus")
    /\ Count("--controller=type=scsi,model=virtio-scsi") = 1

----------------------------------------------------------------------------
(* Definition Patcher and Disk Materializer *)

\* the element names the uri as the file of its source, and its target has a
\* device name and a bus
InScope(el, uri) ==
    /\ el.has_source /\ "file" \in el.source_attrs /\ el.file = uri
    /\ el.has_target /\ "dev" \in el.target_attrs /\ "bus" \in el.target_attrs

\* the patch loop calls the patcher for the disk at i
PatchCalled ==
    /\ pc = "patch" /\ i <= Len(cfg.disks)
    /\ Get(cfg.disks[i], "removable", FALSE)

\* the definition after the step is the one before it with removable set on
\* the target of exactly the elements in scope for the uri
PatchedFor(uri) ==
    /\ Len(vm_xml') = Len(vm_xml)
    /\ \A k \in 1..Len(vm_xml) :
          IF InScope(vm_xml[k], uri)
          THEN vm_xml'[k] = [vm_xml[k] EXCEPT !.target_attrs = @ \cup {"removable"}]
          ELSE vm_xml'[k] = vm_xml[k]

(* C11: a call of set_disk_removable for a disk sets removable="on" on the  *)
(* target of exactly the elements whose source file is the uri of the disk  *)
(* and whose target has a device name and a bus; every other element of the *)
(* definition, a matching one whose target is missing or lacks dev or bus   *)
(* included, is after the call what it was before it.                       *)
RemovablePatchScoped == [][PatchCalled => PatchedFor(cfg.disks[i].uri)]_vars

\* the same of the calls that return: these do patch exactly the elements in scope
RemovablePatchScopedOnReturn ==
    [][PatchCalled /\ pc' = "patch" => PatchedFor(cfg.disks[i].uri)]_vars

\* recreate_disk is called for the disk at i
RecreateCalled == pc = "recreate_disk" /\ i <= Len(cfg.disks)

\* the disk names no source image, and has the keys a blank disk is made from
BlankMode(disk) == ~Has(disk, "imgfile") /\ {"uri", "size", "format"} \subseteq disk.keys

(* C12: recreate_disk, called for a disk that names no source image, issues *)
(* one command and no more: qemu-img create with preallocation=off, the     *)
(* format of the disk, its target path and its size followed by G.  No      *)
(* convert and no resize is issued for the disk, and the loop is done with  *)
(* the disk.                                                                *)
BlankModeMaterialization ==
    [][RecreateCalled /\ BlankMode(cfg.disks[i])
       => LET disk == cfg.disks[i]
          IN  /\ Len(log') = Len(log) + 1
              /\ SubSeq(log', 1, Len(log)) = log
              /\ log'[Len(log')].cmd =
                     <<"sudo", "qemu-img", "create", "-f", disk.format, "-o",
                       "preallocation=off", disk.uri, ToString(disk.size) \o "G">>
              /\ pc' = "exit" \/ i' = i + 1]_vars

\* a run that made its one blank disk of 10G and went on, with one create
\* and no convert or resize printed
BlankModeMaterializationWitness ==
    /\ Len(cfg.disks) = 1
    /\ BlankMode(cfg.disks[1])
    /\ pc = "bios"
    /\ fs[cfg.disks[1].uri] = "file"
    /\ \E k \in 1..Len(log) :
          /\ log[k].tag = "EXECUTING"
          /\ log[k].cmd = <<"sudo", "qemu-img", "create", "-f", "qcow2", "-o",
                            "preallocation=off", "/vm/d1.qcow2", "10G">>
          /\ \A j \in 1..Len(log) :
                j # k => Kind(log[j]) \notin {"create", "convert", "resize"}

----------------------------------------------------------------------------
(* Command Executor *)

\* the process-wide flag as virtbuilder.conf gives it
Flag == "dry_run" \in cfg.defaultconf.keys /\ cfg.defaultconf.dry_run

\* a call of the wrapper went by the override it was given, and by the flag
\* when it was given none
CallDecided(e) ==
    LET active == IF e.dry_run = "None" THEN Flag ELSE e.dry_run = "True"
    IN  IF active
        THEN e.tag = "DRY-RUN" /\ e.returns = "None"
        ELSE e.tag = "EXECUTING" /\ e.returns = "CompletedProcess"

(* C13: every call of subprocess_run_wrapper decides simulation from the    *)
(* override it is given, and from the process-wide flag when it is given    *)
(* none; a simulated call spawns nothing and returns None, any other call   *)
(* spawns the command once and returns its result; and no step of the       *)
(* pipeline writes the flag.                                                *)
ExecutorSimulation ==
    [][/\ cfg'.defaultconf = cfg.defaultconf
       /\ \A k \in 1..Len(log') : CallDecided(log'[k])]_vars

\* a simulated run that probed the ipvtap link for real (override False)
\* and printed its other commands without running them
ExecutorSimulationWitness ==
    /\ Flag
    /\ \E k \in 1..Len(log) :
          log[k].dry_run = "False" /\ log[k].tag = "EXECUTING"
    /\ \E k \in 1..Len(log) :
          log[k].dry_run = "None" /\ log[k].tag = "DRY-RUN" /\ log[k].returns = "None"
    /\ env0.link = link

----------------------------------------------------------------------------
(* Stage ordering *)

\* the stage a command belongs to, 0 for the commands the order says nothing of
Stage(e) ==
    CASE Kind(e) \in {"destroy", "undefine", "rm"}      -> 1
      [] Kind(e) \in {"create", "convert", "resize"}    -> 2
      [] Kind(e) = "virt-install"                       -> 3
      [] Kind(e) = "define"                             -> 4
      [] Kind(e) = "start"                              -> 5
      [] Kind(e) = "virt-viewer"                        -> 6
      [] OTHER                                          -> 0

\* no command of a stage is printed after a command of a later stage
StagesInOrder(l) ==
    \A a, b \in 1..Len(l) :
        a < b /\ Stage(l[a]) > 0 /\ Stage(l[b]) > 0 => Stage(l[a]) <= Stage(l[b])

Materializing(l) == \E k \in 1..Len(l) : Stage(l[k]) = 2

\* destroy and undefine are issued and, in a run that is not simulated, no
\* target of a disk is left
TeardownComplete ==
    /\ Issued("destroy") /\ Issued("undefine")
    /\ i = 1
    /\ ~Flag => \A k \in 1..Len(cfg.disks) : fs[cfg.disks[k].uri] = "none"

\* every disk has its create or convert command and, in a run that is not
\* simulated, its target file
AllMaterialized ==
    /\ Cardinality(Lines(log, "EXECUTING", "create") \cup Lines(log, "DRY-RUN", "create")
                   \cup Lines(log, "EXECUTING", "convert")
                   \cup Lines(log, "DRY-RUN", "convert")) = Len(cfg.disks)
    /\ ~Flag => \A k \in 1..Len(cfg.disks) : fs[cfg.disks[k].uri] = "file"

\* the definition is the generated one, with every element in scope for a
\* removable disk marked
FullyPatched(xml) ==
    /\ vm_ret.called /\ vm_ret.returncode = 0 /\ vm_ret.stderr = ""
    /\ Len(xml) = Len(cfg.disks)
    /\ \A d \in 1..Len(cfg.disks) :
          Get(cfg.disks[d], "removable", FALSE)
          => \A k \in 1..Len(xml) :
                InScope(xml[k], cfg.disks[d].uri) => "removable" \in xml[k].target_attrs

(* C14: in every run the teardown (destroy, undefine, the removal of every  *)
(* disk) is complete before the first create or convert; every disk is      *)
(* materialized before virt-install is issued; the definition is generated  *)
(* and patched for every removable disk before it is written to the file;   *)
(* the file is written before define, define is issued before start, and    *)
(* start before the viewer.                                                 *)
StageOrdering ==
    [][/\ StagesInOrder(log')
       /\ ~Materializing(log) /\ Materializing(log') => TeardownComplete
       /\ ~Issued("virt-install") /\ Issued("virt-install")' => AllMaterialized
       /\ writes' # writes => i > Len(cfg.disks) /\ FullyPatched(vm_xml) /\ xmlfile' = vm_xml
       /\ ~Issued("define") /\ Issued("define")' => writes = 1 /\ xmlfile = vm_xml
       /\ ~Issued("start") /\ Issued("start")' => Issued("define")
       /\ ~Issued("virt-viewer") /\ Issued("virt-viewer")' => Issued("start")]_vars

\* a run that went through every stage, with two disks, one of them
\* removable and marked in the file that was written
StageOrderingWitness ==
    /\ pc = "exit" /\ status = 0
    /\ Len(cfg.disks) = MaxDisks
    /\ Issued("destroy") /\ Issued("create") /\ Issued("virt-install")
    /\ Issued("define") /\ Issued("start") /\ Issued("virt-viewer")
    /\ writes = 1
    /\ \E k \in 1..Len(xmlfile) : "removable" \in xmlfile[k].target_attrs

----------------------------------------------------------------------------
(* Failures of the generation and of the activation *)

(* C15: when virt-install has exited nonzero, or has exited zero with       *)
(* output on stderr, the process has ended with status 1, the definition    *)
(* file has not been written, and no define, start or viewer command has    *)
(* been issued.                                                             *)
GenerationFailure ==
    vm_ret.called /\ (vm_ret.returncode # 0 \/ vm_ret.stderr # "")
    => /\ pc = "exit" /\ status = 1
       /\ writes = 0 /\ xmlfile = env0.xmlfile
       /\ ~Issued("define") /\ ~Issued("start") /\ ~Issued("virt-viewer")

\* virt-install exited zero with a warning on stderr, and the run ended there
GenerationFailureWitness ==
    /\ vm_ret.called /\ vm_ret.returncode = 0 /\ vm_ret.stderr = "WARNING"
    /\ pc = "exit" /\ status = 1
    /\ Kind(log[Len(log)]) = "virt-install"

\* the last command the run printed
LastKind == IF log = <<>> THEN "none" ELSE Kind(log[Len(log)])

(* C16: in a run that is not simulated, start is issued only with the       *)
(* domain defined by a define that succeeded, and the viewer only with the  *)
(* domain running after a start that succeeded.  When start has failed      *)
(* after define succeeded, the process has ended with status 1, start is    *)
(* the last command it issued (no undefine, no destroy, nothing after it),  *)
(* and the domain is defined and stopped.                                   *)
ActivationSubSteps ==
    ~Flag
    => /\ Issued("start")
          => Executed("define") /\ domain \in {"stopped", "running"}
       /\ Issued("virt-viewer") => Executed("start") /\ domain = "running"
       /\ Executed("start") /\ domain # "running"
          => /\ pc = "exit" /\ status = 1
             /\ LastKind = "start"
             /\ domain = "stopped"
             /\ Cardinality(Lines(log, "EXECUTING", "undefine")) = 1
             /\ Cardinality(Lines(log, "EXECUTING", "destroy")) = 1
             /\ \A u \in Lines(log, "EXECUTING", "undefine"),
                   d \in Lines(log, "EXECUTING", "define") : u < d

\* define succeeded, start failed: the run ended with the domain defined and
\* stopped
ActivationSubStepsWitness ==
    /\ ~Flag
    /\ Executed("define") /\ Executed("start")
    /\ LastKind = "start"
    /\ pc = "exit" /\ status = 1
    /\ domain = "stopped"

----------------------------------------------------------------------------
(* Failures of the materialization *)

\* the lines of the create and convert commands: one for each disk the
\* recreate loop came to
MaterializeLines(l) == {k \in 1..Len(l) : Kind(l[k]) \in {"create", "convert"}}

\* the convert command of a disk has failed
ConvertFailed ==
    \E k \in 1..Len(cfg.disks) :
        ("[ERROR] Failed to convert image '" \o cfg.disks[k].imgfile \o "' to disk '"
         \o cfg.disks[k].uri \o "'") \in reported

(* C17: when the convert command of a disk has exited nonzero, the process  *)
(* has ended with status 1 at that disk: the convert is the last command    *)
(* issued (no resize for the disk), no later disk has a create or convert,  *)
(* and no definition has been generated.                                    *)
ConversionFailureFatal ==
    ConvertFailed
    => /\ pc = "exit" /\ status = 1
       /\ i \in 1..Len(cfg.disks)
       /\ LastKind = "convert"
       /\ log[Len(log)].cmd[12] = cfg.disks[i].uri
       /\ Cardinality(MaterializeLines(log)) = i
       /\ ~Issued("virt-install")
       /\ virtinstall_cmd = <<>> /\ vm_xml = <<>> /\ writes = 0

\* the convert of the first of two disks, which has a size, failed
ConversionFailureFatalWitness ==
    /\ ConvertFailed
    /\ Len(cfg.disks) = MaxDisks
    /\ Has(cfg.disks[1], "size")
    /\ i = 1
    /\ pc = "exit" /\ status = 1

\* the disk the k-th line of the log is about, for a create or convert line
DiskOf(l, k) == cfg.disks[Cardinality({j \in MaterializeLines(l) : j <= k})]

\* every convert that succeeded is followed by the resize of its disk if the
\* disk has a size and by no resize if it has none, and there is no other
\* resize
ResizeFollowsConvert(l) ==
    /\ \A k \in 1..Len(l) :
          Kind(l[k]) = "convert" /\ ~(ConvertFailed' /\ k = Len(l))
          => LET disk == DiskOf(l, k)
             IN  IF Has(disk, "size")
                 THEN /\ k < Len(l)
                      /\ l[k + 1].cmd = <<"sudo", "qemu-img", "resize", "-f", disk.format,
                                          "-o", "preallocation=off", disk.uri,
                                          ToString(disk.size) \o "G">>
                 ELSE k = Len(l) \/ Kind(l[k + 1]) # "resize"
    /\ \A k \in 1..Len(l) :
          Kind(l[k]) = "resize" => k > 1 /\ Kind(l[k - 1]) = "convert"

\* the resize of the disk at i fails in this step
ResizeFails ==
    /\ pc = "recreate_disk" /\ i <= Len(cfg.disks)
    /\ \E m \in reported' \ reported :
          m = "[ERROR] Failed to resize disk '" \o cfg.disks[i].uri \o "'"

(* C18: for a disk made by conversion, the resize command is issued right   *)
(* after the convert that succeeded if and only if the disk has a size; and *)
(* a resize that fails is reported and the pipeline goes on: the process    *)
(* has not ended, and the loop is at the next disk (or, after the last      *)
(* disk, at the definition synthesis).                                      *)
ResizeAfterConversion ==
    [][/\ ResizeFollowsConvert(log')
       /\ ResizeFails
          => /\ pc' = "recreate_disk" /\ status' = "running"
             /\ i' = i + 1
             /\ fs'[cfg.disks[i].uri] = "file"]_vars

\* the resize of the first of two disks failed, and the run went on to the
\* second disk and to virt-install
ResizeAfterConversionWitness ==
    /\ Len(cfg.disks) = MaxDisks
    /\ ("[ERROR] Failed to resize disk '" \o cfg.disks[1].uri \o "'") \in reported
    /\ Cardinality(MaterializeLines(log)) = MaxDisks
    /\ Kind(log[Len(log)]) = "virt-install"
    /\ Kind(log[Len(log) - 1]) # "resize"

\* a create command that ran and left no file at its target
CreateFailedAt(k) ==
    /\ log[k].tag = "EXECUTING" /\ Kind(log[k]) = "create"
    /\ fs[log[k].cmd[8]] # "file"

(* C19: when the create command of a disk has exited nonzero, the process   *)
(* has ended with status 1 right there: the create is the last command      *)
(* issued, so no later disk is materialized and nothing is issued to undo   *)
(* what was done (the disks made before it are still there), and no         *)
(* definition has been generated.                                           *)
BlankCreationFailureFatal ==
    \A k \in 1..Len(log) :
        CreateFailedAt(k)
        => /\ pc = "exit" /\ status = 1
           /\ k = Len(log)
           /\ i \in 1..Len(cfg.disks)
           /\ log[k].cmd[8] = cfg.disks[i].uri
           /\ Cardinality(MaterializeLines(log)) = i
           /\ \A j \in 1..(i - 1) : fs[cfg.disks[j].uri] = "file"
           /\ ~Issued("virt-install")
           /\ virtinstall_cmd = <<>> /\ vm_xml = <<>> /\ writes = 0

\* the create of the second disk failed after the first disk was made
BlankCreationFailureFatalWitness ==
    /\ Len(log) > 0 /\ CreateFailedAt(Len(log))
    /\ i = 2
    /\ fs[cfg.disks[1].uri] = "file"
    /\ pc = "exit" /\ status = 1

----------------------------------------------------------------------------
(* Definition Patcher: errors *)

(* C20: set_disk_removable raises no error, whatever elements the generated *)
(* definition holds (one with no source, one whose source has no file, none *)
(* of the path of the disk): a run whose virt-install succeeded does not    *)
(* end in the patch loop, it comes to the write of the file and to the      *)
(* activation.                                                              *)
PatcherRaisesNoError ==
    vm_ret.called /\ vm_ret.returncode = 0 /\ vm_ret.stderr = "" /\ pc = "exit"
    => i > Len(cfg.disks)

----------------------------------------------------------------------------
(* ipvtap link provisioning *)

\* the commands of a kind among the lines a step adds to the log
Added(kind) == {k \in (Len(log) + 1)..Len(log') : Kind(log'[k]) = kind}

\* the ipvtap case of the network match is taken, in a run that is not
\* simulated, with the parent interface given
IpvtapBranch ==
    /\ pc = "network"
    /\ ~Flag
    /\ {"type", "parent_interface"} \subseteq cfg.network.keys
    /\ cfg.network.type = "ipvtap"

\* the run before this one went through the ipvtap case to virt-install
PrevProvisioned ==
    /\ run > 1
    /\ \E k \in 1..Len(prev.log) : Kind(prev.log[k]) = "virt-install"

(* C21: in a run that is not simulated, for the link absent, down or up,    *)
(* the ipvtap case issues ip link add exactly when the first probe finds no *)
(* link, issues ip link set up exactly when the second probe does not show  *)
(* the link up, and leaves the case with the link up; and the run after a   *)
(* run that went through the case issues neither the add nor the set up.    *)
IpvtapProvisioning ==
    [][IpvtapBranch
       => /\ Added("ip link add") # {} <=> link = "absent"
          /\ Cardinality(Added("ip link add")) <= 1
          /\ Cardinality(Added("ip link show")) = 2
             => /\ Added("ip link set") # {} <=> link # "up"
                /\ Cardinality(Added("ip link set")) <= 1
          /\ pc' = "virt_install" => link' = "up"
          /\ PrevProvisioned
             => Added("ip link add") = {} /\ Added("ip link set") = {}]_vars

\* the second of two runs: the first found no link, added it and set it up;
\* the second probed twice and issued neither command
IpvtapProvisioningWitness ==
    /\ ~Flag /\ cfg.network.type = "ipvtap"
    /\ run = 2
    /\ prev.env0.link = "absent"
    /\ \E k \in 1..Len(prev.log) : Kind(prev.log[k]) = "ip link add"
    /\ \E k \in 1..Len(prev.log) : Kind(prev.log[k]) = "ip link set"
    /\ Cardinality(Lines(log, "EXECUTING", "ip link show")) = 2
    /\ ~Issued("ip link add") /\ ~Issued("ip link set")
    /\ Issued("virt-install")
    /\ link = "up"

----------------------------------------------------------------------------
(* Graphics dispatch *)

\* the display arguments of the modes, the mode with no display being named
\* no_display
DisplayArguments(mode, no_display) ==
    CASE mode = "3d"       -> <<"--graphics=spice,listen=none,gl.enable=yes",
                                "--video=virtio,model.acceleration.accel3d=yes">>
      [] mode = "spice"    -> <<"--graphics=spice">>
      [] mode = "vnc"      -> <<"--graphics=vnc">>
      [] mode = no_display -> <<"--graphics=none">>

\* the graphics step appends the display arguments of each of the four modes
\* and goes on; for any other mode it ends the process with status 1, with
\* no virt-install issued
GraphicsDispatchWith(no_display) ==
    pc = "graphics" /\ Has(cfg.vm, "graphics")
    => IF cfg.vm.graphics \in {"3d", "spice", "vnc", no_display}
       THEN /\ virtinstall_cmd' =
                   virtinstall_cmd \o DisplayArguments(cfg.vm.graphics, no_display)
            /\ pc' = "disk_args" /\ status' = "running"
       ELSE /\ pc' = "exit" /\ status' = 1
            /\ virtinstall_cmd' = virtinstall_cmd
            /\ log' = log /\ ~Issued("virt-install")

(* C22, as stated: each of the graphics modes 3d, spice, vnc and headless   *)
(* is accepted and gives its display argument, headless the no-display      *)
(* argument; any other mode ends the run with a nonzero status before       *)
(* virt-install is invoked.                                                 *)
GraphicsDispatchHeadless == [][GraphicsDispatchWith("headless")]_vars

(* C22, amended: the accepted graphics modes are 3d, spice, vnc and         *)
(* serial_console, each giving its display argument, serial_console the     *)
(* no-display argument --graphics=none; any other mode, headless included,  *)
(* ends the run with status 1 before virt-install is invoked.               *)
GraphicsDispatch == [][GraphicsDispatchWith("serial_console")]_vars

\* a run with the mode serial_console that went past the graphics step with
\* the no-display argument
GraphicsDispatchWitness ==
    /\ cfg.vm.graphics = "serial_console"
    /\ pc = "disk_args"
    /\ virtinstall_cmd[Len(virtinstall_cmd)] = "--graphics=none"

----------------------------------------------------------------------------
(* Stale targets *)

\* every disk has a target path, and no two disks have the same
DistinctTargets ==
    /\ \A k \in 1..Len(cfg.disks) : Has(cfg.disks[k], "uri")
    /\ \A j, k \in 1..Len(cfg.disks) : j # k => cfg.disks[j].uri # cfg.disks[k].uri

\* the disk has the keys recreate_disk reads for the mode it is made in
MaterializeKeys(disk) ==
    IF ConversionMode(disk)
    THEN {"uri", "imgformat", "format"} \subseteq disk.keys
    ELSE {"uri", "size", "format"} \subseteq disk.keys

\* no file is at the target of the disk recreate_disk is called for
NoStaleTarget ==
    ~Flag /\ ~cfg.remove /\ DistinctTargets /\ RecreateCalled
    => fs[cfg.disks[i].uri] # "file"

(* C23: in a run that is neither simulated nor teardown-only, with the      *)
(* target paths of the disks pairwise distinct, no file is at the target of *)
(* a disk when recreate_disk is called for it; and recreate_disk issues no  *)
(* removal command and does not look at the target: with a file there it    *)
(* issues the create or convert of the disk all the same.                   *)
StaleTargetsGone ==
    [][/\ NoStaleTarget'
       /\ RecreateCalled
          => /\ Added("rm") = {}
             /\ MaterializeKeys(cfg.disks[i]) /\ fs[cfg.disks[i].uri] = "file"
                => Added("create") \cup Added("convert") # {}]_vars

\* a file was at the target of the first of two disks when the run began;
\* the teardown removed it, and recreate_disk is about to be called for
\* the disk
StaleTargetsGoneWitness ==
    /\ ~Flag /\ ~cfg.remove /\ DistinctTargets
    /\ Len(cfg.disks) = MaxDisks
    /\ env0.fs[cfg.disks[1].uri] = "file"
    /\ Executed("rm")
    /\ pc = "recreate_disk" /\ i = 1
    /\ fs[cfg.disks[1].uri] = "none"

----------------------------------------------------------------------------
(* The definition file *)

\* no element is marked removable but those in scope for a removable disk
OnlyPatched(xml) ==
    \A k \in 1..Len(xml) :
        "removable" \in xml[k].target_attrs
        => \E d \in 1..Len(cfg.disks) :
              /\ Get(cfg.disks[d], "removable", FALSE)
              /\ InScope(xml[k], cfg.disks[d].uri)

\* the run came to the write of the file and the write failed
WriteFailed ==
    /\ pc = "exit"
    /\ vm_ret.called /\ vm_ret.returncode = 0 /\ vm_ret.stderr = ""
    /\ i > Len(cfg.disks)
    /\ writes = 0

(* C24: in any run the definition file, the path of the VM document with    *)
(* its extension replaced by .xml, is written at most once, and only after  *)
(* virt-install succeeded with nothing on stderr; what is written is the    *)
(* generated definition with the removable patch of every disk flagged      *)
(* removable, the patches of several disks together; define is given that   *)
(* file; and a failure of the write ends the run, with status 1, before     *)
(* define is issued.                                                        *)
DefinitionPersistedOnce ==
    /\ writes <= 1
    /\ writes = 1
       => /\ xmlfile = vm_xml
          /\ FullyPatched(xmlfile) /\ OnlyPatched(xmlfile)
    /\ \A k \in 1..Len(log) :
          Kind(log[k]) = "define"
          => /\ writes = 1
             /\ log[k].cmd[Len(log[k].cmd)] = cfg.vmconffile.base \o ".xml"
    /\ WriteFailed => status = 1 /\ ~Issued("define")

\* the file of a run with two removable disks, written once with both
\* elements marked, and given to define
DefinitionPersistedOnceWitness ==
    /\ writes = 1
    /\ Len(cfg.disks) = MaxDisks
    /\ \A d \in 1..Len(cfg.disks) : Get(cfg.disks[d], "removable", FALSE)
    /\ \A k \in 1..Len(xmlfile) : "removable" \in xmlfile[k].target_attrs
    /\ Executed("define")

----------------------------------------------------------------------------
(* Per-disk removal *)

\* remove_disk is called for the disk at i
RemoveCalled ==
    /\ pc = "remove_disk" /\ i <= Len(cfg.disks)
    /\ Has(cfg.disks[i], "uri")

\* the rm of the step ran and left the target where it was
RemovalFails ==
    /\ ~Flag
    /\ Added("rm") # {}
    /\ fs'[cfg.disks[i].uri] # "none"

(* C25: in the teardown, rm is issued for a disk exactly when its target    *)
(* path exists at the moment remove_disk is called for it, and a target     *)
(* that is not there is passed over with no error; when the rm fails the    *)
(* run ends there with a nonzero status, in teardown-only mode too, and no  *)
(* disk has been materialized.                                              *)
PerDiskRemoval ==
    [][RemoveCalled
       => LET uri == cfg.disks[i].uri
          IN  /\ Added("rm") # {} <=> fs[uri] # "none"
              /\ \A k \in Added("rm") :
                    k = Len(log') /\ log'[k].cmd = <<"sudo", "rm", uri>>
              /\ fs[uri] = "none"
                 => pc' = "remove_disk" /\ i' = i + 1 /\ status' = "running" /\ log' = log
              /\ RemovalFails
                 => /\ pc' = "exit" /\ status' = 1
                    /\ MaterializeLines(log') = {}]_vars

\* a teardown-only run whose rm failed: it ended with status 1
PerDiskRemovalWitness ==
    /\ ~Flag /\ cfg.remove
    /\ LastKind = "rm"
    /\ fs[log[Len(log)].cmd[3]] # "none"
    /\ pc = "exit" /\ status = 1

====
